---- MODULE Spec2Model ----
(***************************************************************************)
(* Model of the odoo-newrelic addon (src/newrelic/__init__.py).            *)
(*                                                                         *)
(* The addon is a set of start-up procedures that patch process-wide       *)
(* objects of the host framework.  The state of the model is that          *)
(* process-wide state: the configuration store, the patch targets (how     *)
(* many wrapper layers each carries, and the _nr_instrumented markers),    *)
(* the agent runtime, and the observable result of the last call.          *)
(*                                                                         *)
(* Python text is modelled as a sequence of tokens, so that strip() and    *)
(* split() are computed and not assumed.  A Python exception is the field  *)
(* exc of the execution context: "" when nothing is propagating.           *)
(***************************************************************************)
EXTENDS Integers, Sequences, FiniteSets, TLC

VARIABLES
    config,     \* odoo.tools.config: a function from the keys present to values
    env,        \* the rest of the environment post_load runs in (fixed)
    proc,       \* the patchable process-wide state
    out,        \* what the last call did: calls made, log, exception, events
    nloads,     \* number of post_load invocations so far
    wsgi_rets   \* the results of the patch_wsgi calls so far, in order

vars == <<config, env, proc, out, nloads, wsgi_rets>>

----------------------------------------------------------------------------
(* Bounds *)

MaxLoads == 2
MaxEntries == 2

----------------------------------------------------------------------------
(* Python values and text *)

None == [t |-> "none"]

PyStr(s) == [t |-> "str", v |-> s]

PyInt(n) == [t |-> "int", v |-> n]

PyBool(b) == [t |-> "bool", v |-> b]

Truthy(x) ==
    CASE x.t = "none" -> FALSE
      [] x.t = "bool" -> x.v
      [] x.t = "int"  -> x.v # 0
      [] x.t = "str"  -> x.v # <<>>

WS == " "

RECURSIVE lstrip(_)
lstrip(s) == IF s # <<>> /\ Head(s) = WS THEN lstrip(Tail(s)) ELSE s

RECURSIVE rstrip(_)
rstrip(s) ==
    IF s # <<>> /\ s[Len(s)] = WS THEN rstrip(SubSeq(s, 1, Len(s) - 1)) ELSE s

strip(s) == rstrip(lstrip(s))

RECURSIVE SplitAcc(_, _, _, _, _)
SplitAcc(s, sep, i, cur, acc) ==
    IF i > Len(s) THEN Append(acc, cur)
    ELSE IF s[i] = sep THEN SplitAcc(s, sep, i + 1, <<>>, Append(acc, cur))
    ELSE SplitAcc(s, sep, i + 1, Append(cur, s[i]), acc)

split(s, sep) == SplitAcc(s, sep, 1, <<>>, <<>>)

startswith(s, prefix) ==
    Len(s) >= Len(prefix) /\ SubSeq(s, 1, Len(prefix)) = prefix

----------------------------------------------------------------------------
(* The configuration store and the process environment *)

config_get(k) == IF k \in DOMAIN config THEN config[k] ELSE None

environ_get(k, default) ==
    IF k \in DOMAIN env.environ THEN env.environ[k] ELSE default

----------------------------------------------------------------------------
(* Execution context of one call: the process state it mutates, the log    *)
(* records it emits, the functions it enters, the exception propagating.   *)

NewCtx(p) ==
    [p |-> p, log |-> <<>>, calls |-> <<>>, exc |-> "", ret |-> "None",
     wsgi |-> ""]

Log(c, level, m) == [c EXCEPT !.log = Append(@, <<level, m>>)]

Enter(c, f) == [c EXCEPT !.calls = Append(@, f)]

Raise(c, e) == [c EXCEPT !.exc = e]

Return(c, r) == [c EXCEPT !.ret = r]

----------------------------------------------------------------------------
(* initialize_agent *)

agent_initialize(c, args) ==
    IF env.agent_ok
    THEN [c EXCEPT !.p.agent_inits = Append(@, args)]
    ELSE Raise(c, "ConfigurationError")

\* as initialize_agent, without the retry on the configuration file alone
initialize_agent_noretry(c) ==
    IF {"new_relic_config_file", "new_relic_environment"} \subseteq DOMAIN config
    THEN agent_initialize(c, <<config["new_relic_config_file"],
                               config["new_relic_environment"]>>)
    ELSE agent_initialize(
             Log(c, "info", "NewRelic setting up from env variables"), <<>>)

initialize_agent(c) ==
    IF {"new_relic_config_file", "new_relic_environment"} \subseteq DOMAIN config
    THEN agent_initialize(c, <<config["new_relic_config_file"],
                               config["new_relic_environment"]>>)
    ELSE \* KeyError from one of the two lookups
         IF "new_relic_config_file" \in DOMAIN config
         THEN agent_initialize(c, <<config["new_relic_config_file"]>>)
         ELSE agent_initialize(
                  Log(c, "info", "NewRelic setting up from env variables"), <<>>)

----------------------------------------------------------------------------
(* patch_wsgi *)

patch_server_app(c) ==
    IF env.has_server /\ ~c.p.server_app_marker
    THEN [c EXCEPT !.p.server_app_wraps = @ + 1, !.p.server_app_marker = TRUE]
    ELSE c

patch_wsgi_fallback(c) ==
    LET c1 == [c EXCEPT !.p.class_wraps = @ + 1, !.p.app_marker = FALSE]
        c2 == patch_server_app(c1)
    IN  IF "workers" \notin DOMAIN config THEN Raise(c2, "KeyError")
        ELSE IF ~Truthy(config["workers"])
        THEN Log(Log(c2, "warning", "AttributeError"),
                 "warning", "Failed to patch the WSGI application")
        ELSE c2

\* as patch_wsgi, without the test of the marker
patch_wsgi_unchecked(c) ==
    LET c1 == IF env.call_writable
              THEN [c EXCEPT !.p.call_wraps = @ + 1]
              ELSE patch_wsgi_fallback(c)
    IN  IF c1.exc # "" THEN c1
        ELSE Return([c1 EXCEPT !.p.app_marker = TRUE], "True")

\* as patch_wsgi, without setting the marker before returning
patch_wsgi_nomarker(c) ==
    IF c.p.app_marker
    THEN Return(Log(c, "info", "NewRelic instrumented already"), "False")
    ELSE LET c1 == IF env.call_writable
                   THEN [c EXCEPT !.p.call_wraps = @ + 1]
                   ELSE patch_wsgi_fallback(c)
         IN  IF c1.exc # "" THEN c1 ELSE Return(c1, "True")

patch_wsgi(c) ==
    IF c.p.app_marker
    THEN Return(Log(c, "info", "NewRelic instrumented already"), "False")
    ELSE LET c1 == IF env.call_writable
                   THEN [c EXCEPT !.p.call_wraps = @ + 1]
                   ELSE patch_wsgi_fallback(c)
         IN  IF c1.exc # "" THEN c1
             ELSE Return([c1 EXCEPT !.p.app_marker = TRUE], "True")

----------------------------------------------------------------------------
(* patch_bus_controller *)

patch_bus_controller(c) ==
    LET c1 == Log(c, "info", "attaching to bus controller")
    IN  IF env.bus_ok
        THEN Log([c1 EXCEPT !.p.bus_wraps = @ + 1],
                 "info", "finished attaching to bus controller")
        ELSE Log(c1, "exception", "bus controller")

----------------------------------------------------------------------------
(* patch_methods *)

BaseModelName == "odoo.models.BaseModel"

\* dir(odoo.models.BaseModel), in dir()'s sorted order, each attribute with
\* callable(getattr(BaseModel, name)).  A name is a sequence of pieces, so
\* that startswith("_") and startswith("__") are computed.
BaseModelDir ==
    << [name |-> <<"_", "_", "init", "_", "_">>, callable |-> TRUE],
       [name |-> <<"_", "_", "slots", "_", "_">>, callable |-> FALSE],
       [name |-> <<"_", "name">>, callable |-> FALSE],
       [name |-> <<"_", "search">>, callable |-> TRUE],
       [name |-> <<"browse">>, callable |-> TRUE],
       [name |-> <<"create">>, callable |-> TRUE],
       [name |-> <<"id">>, callable |-> FALSE],
       [name |-> <<"read">>, callable |-> TRUE],
       [name |-> <<"read_group">>, callable |-> TRUE],
       [name |-> <<"search">>, callable |-> TRUE],
       [name |-> <<"search_count">>, callable |-> TRUE],
       [name |-> <<"search_read">>, callable |-> TRUE],
       [name |-> <<"unlink">>, callable |-> TRUE],
       [name |-> <<"write">>, callable |-> TRUE] >>

AttrNames == {BaseModelDir[i].name : i \in DOMAIN BaseModelDir}

Path(func) == <<"BaseModel", ".">> \o func

RECURSIVE PathsOf(_, _)
PathsOf(attrs, skip) ==
    IF attrs = <<>> THEN <<>>
    ELSE LET a == Head(attrs)
         IN  (IF a.callable /\ ~startswith(a.name, skip)
              THEN <<Path(a.name)>> ELSE <<>>) \o PathsOf(Tail(attrs), skip)

\* as LimitedPaths, without the search methods
LimitedPaths_crud ==
    << Path(<<"create">>), Path(<<"read">>), Path(<<"read_group">>),
       Path(<<"write">>), Path(<<"unlink">>) >>

LimitedPaths ==
    << Path(<<"create">>), Path(<<"read">>), Path(<<"read_group">>),
       Path(<<"write">>), Path(<<"unlink">>), Path(<<"search">>),
       Path(<<"search_read">>), Path(<<"search_count">>) >>

paths_for(patch_base, patch_type) ==
    IF patch_base = <<BaseModelName>>
    THEN IF patch_type = <<"all">> THEN PathsOf(BaseModelDir, <<"_", "_">>)
         ELSE IF patch_type = <<"public">> THEN PathsOf(BaseModelDir, <<"_">>)
         ELSE IF patch_type = <<"limited">> THEN LimitedPaths
         ELSE <<>>
    ELSE <<>>

\* newrelic.agent.wrap_function_trace(odoo.models, path)
wrap_function_trace(c, path) ==
    LET func == SubSeq(path, 3, Len(path))
    IN  IF ~env.wrap_ok THEN Raise(c, "ImportError")
        ELSE IF path[1] # "BaseModel" \/ func \notin AttrNames
        THEN Raise(c, "AttributeError")
        ELSE [c EXCEPT !.p.method_wraps[func] = @ + 1]

RECURSIVE wrap_paths(_, _)
wrap_paths(c, paths) ==
    IF paths = <<>> \/ c.exc # "" THEN c
    ELSE wrap_paths(wrap_function_trace(c, Head(paths)), Tail(paths))

\* the body of "for patch in nr_patches", from the i-th patch on
RECURSIVE apply_patches(_, _, _)
apply_patches(c, nr_patches, i) ==
    IF i > Len(nr_patches) \/ c.exc # "" THEN c
    ELSE LET parts == split(nr_patches[i], ":")
         IN  IF Len(parts) # 2 THEN Raise(c, "ValueError")
             ELSE apply_patches(wrap_paths(c, paths_for(parts[1], parts[2])),
                                nr_patches, i + 1)

\* as patch_methods, with the try/except around each patch, not the loop
patch_methods_perpatch(c) ==
    LET nr_odoo_trace == environ_get("NEW_RELIC_ODOO_TRACE",
                                     config_get("new_relic_odoo_trace"))
        nr_patches == IF nr_odoo_trace.t = "none"
                      THEN << <<BaseModelName, ":", "limited">> >>
                      ELSE split(strip(nr_odoo_trace.v), ",")
        one(c0, i) == LET c1 == apply_patches(c0, <<nr_patches[i]>>, 1)
                      IN  IF c1.exc # ""
                          THEN Raise(Log(c1, "exception", c1.exc), "")
                          ELSE c1
        RECURSIVE each(_, _)
        each(c0, i) == IF i > Len(nr_patches) THEN c0
                       ELSE each(one(c0, i), i + 1)
    IN  IF nr_odoo_trace.t \notin {"none", "str"}
        THEN Raise(c, "AttributeError")
        ELSE each(Log(c, "info", "Applying Tracing"), 1)

patch_methods(c) ==
    LET nr_odoo_trace == environ_get("NEW_RELIC_ODOO_TRACE",
                                     config_get("new_relic_odoo_trace"))
    IN  IF nr_odoo_trace.t \notin {"none", "str"}
        THEN Raise(c, "AttributeError")   \* no strip() on a non-string
        ELSE LET nr_patches ==
                     IF nr_odoo_trace.t = "none"
                     THEN << <<BaseModelName, ":", "limited">> >>
                     ELSE split(strip(nr_odoo_trace.v), ",")
                 c1 == apply_patches(Log(c, "info", "Applying Tracing"),
                                     nr_patches, 1)
             IN  IF c1.exc # ""
                 THEN Raise(Log(c1, "exception", c1.exc), "")
                 ELSE c1

----------------------------------------------------------------------------
(* setup_error_handling *)

Dispatchers == <<"HttpDispatcher", "JsonRPCDispatcher">>

RECURSIVE patch_targets(_, _)
patch_targets(c, targets) ==
    IF targets = <<>> \/ c.exc # "" THEN c
    ELSE IF Head(targets) \notin env.dispatchers
    THEN Raise(c, "AttributeError")
    ELSE patch_targets([c EXCEPT !.p.handle_error_wraps[Head(targets)] = @ + 1],
                       Tail(targets))

setup_error_handling(c) == patch_targets(c, Dispatchers)

----------------------------------------------------------------------------
(* post_load *)

\* call f's result c1 from post_load: an exception ends post_load at once
post_load_patches(c) ==
    LET c1 == patch_bus_controller(Enter(Log(c, "info", "WSGI patching done"),
                                         "patch_bus_controller"))
        c2 == patch_methods(Enter(c1, "patch_methods"))
    IN  IF c2.exc # "" THEN c2
        ELSE setup_error_handling(Enter(c2, "setup_error_handling"))

\* as post_load_after_init, ignoring what patch_wsgi returned
post_load_after_init_unguarded(c) ==
    LET c1 == patch_wsgi(Enter(c, "patch_wsgi"))
        c2 == [c1 EXCEPT !.wsgi = IF c1.exc # "" THEN "raised" ELSE c1.ret]
    IN  IF c2.exc # "" THEN c2 ELSE post_load_patches(c2)

post_load_after_init(c) ==
    LET c1 == patch_wsgi(Enter(c, "patch_wsgi"))
        c2 == [c1 EXCEPT !.wsgi = IF c1.exc # "" THEN "raised" ELSE c1.ret]
    IN  IF c2.exc # "" THEN c2
        ELSE IF c2.ret = "True" THEN post_load_patches(c2)
        ELSE c2

\* as post_load, without the stop_after_init check
post_load_nostop(c) ==
    LET c1 == initialize_agent(Enter(c, "initialize_agent"))
    IN  IF c1.exc # "" THEN c1 ELSE post_load_after_init(c1)

post_load(c) ==
    IF Truthy(config_get("stop_after_init")) THEN c
    ELSE LET c1 == initialize_agent(Enter(c, "initialize_agent"))
         IN  IF c1.exc # "" THEN c1 ELSE post_load_after_init(c1)

----------------------------------------------------------------------------
(* The handle_error wrapper installed by setup_error_handling *)

\* exceptions a dispatcher's handle_error is called with: http says whether
\* the value is an instance of werkzeug.exceptions.HTTPException
Exceptions ==
    { [cls |-> "werkzeug.exceptions.NotFound", http |-> TRUE,
       has_code |-> TRUE, code |-> 404],
      [cls |-> "urllib.error.HTTPError", http |-> FALSE,
       has_code |-> TRUE, code |-> 403],
      [cls |-> "ValueError", http |-> FALSE,
       has_code |-> FALSE, code |-> 0] }

\* what the unpatched handle_error does with the call
Outcomes == { [kind |-> "return", v |-> "response"],
              [kind |-> "raise", v |-> "error"] }

\* as status_code, testing for a code attribute instead of the type
status_code_any(exc, value, tb) ==
    IF value.has_code THEN PyInt(value.code) ELSE None

status_code(exc, value, tb) ==
    IF value.http THEN PyInt(value.code) ELSE None

callable_name(obj) == obj.cls

Event(ev, arg) == [ev |-> ev, arg |-> arg]

\* handle_error of a dispatcher class carrying `depth` wrapper layers, called
\* with positional arguments args = (self, exc) while exc is being handled.
\* txn: newrelic.agent.current_transaction() is not None.
RECURSIVE handle_error(_, _, _, _)

\* as handle_error, without the test for an active transaction
handle_error_nocheck(depth, txn, args, orig) ==
    IF depth = 0
    THEN [events |-> <<Event("original", args)>>, outcome |-> orig]
    ELSE LET wrapped == handle_error(depth - 1, txn, args, orig)
         IN  [events |->
                  << Event("notice_error",
                           status_code(args[2].cls, args[2], "tb")),
                     Event("FunctionTrace.enter", callable_name(args[2])) >>
                  \o wrapped.events
                  \o << Event("FunctionTrace.exit", callable_name(args[2])) >>,
              outcome |-> wrapped.outcome]

handle_error(depth, txn, args, orig) ==
    IF depth = 0
    THEN [events |-> <<Event("original", args)>>, outcome |-> orig]
    ELSE LET wrapped == handle_error(depth - 1, txn, args, orig)
         IN  IF ~txn THEN wrapped
             ELSE [events |->
                       << Event("notice_error",
                                status_code(args[2].cls, args[2], "tb")),
                          Event("FunctionTrace.enter", callable_name(args[2])) >>
                       \o wrapped.events
                       \o << Event("FunctionTrace.exit", callable_name(args[2])) >>,
                   outcome |-> wrapped.outcome]

----------------------------------------------------------------------------
(* State *)

NoCall == [disp |-> "", txn |-> FALSE, value |-> CHOOSE e \in Exceptions : TRUE,
           orig |-> CHOOSE o \in Outcomes : TRUE]

NoOut ==
    [op |-> "none", calls |-> <<>>, log |-> <<>>, exc |-> "", wsgi |-> "",
     events |-> <<>>, outcome |-> CHOOSE o \in Outcomes : TRUE, call |-> NoCall]

InitProc(server_app_marker) ==
    [app_marker |-> FALSE, call_wraps |-> 0, class_wraps |-> 0,
     server_app_wraps |-> 0, server_app_marker |-> server_app_marker,
     agent_inits |-> <<>>, bus_wraps |-> 0,
     method_wraps |-> [n \in AttrNames |-> 0],
     handle_error_wraps |-> [d \in {"HttpDispatcher", "JsonRPCDispatcher"} |-> 0]]

EmptyMap == [k \in {} |-> None]

Opt(present, k, v) == IF present THEN k :> v ELSE EmptyMap

\* trace specs are written from these entries
EL == <<BaseModelName, ":", "limited">>
EP == <<BaseModelName, ":", "public">>
EA == <<BaseModelName, ":", "all">>
EO == <<"odoo.other.Something", ":", "limited">>
EU == <<BaseModelName, ":", "bogus">>
EB == <<BaseModelName>>
EE == <<>>
EX == <<BaseModelName, ":", "limited", ":", "x">>
EW == <<WS, BaseModelName, ":", "limited">>

Entries == {EL, EP, EA, EO, EU, EB, EE, EX, EW}

RECURSIVE Join(_)
Join(es) ==
    IF es = <<>> THEN <<>>
    ELSE IF Len(es) = 1 THEN es[1]
    ELSE es[1] \o <<",">> \o Join(Tail(es))

TraceStrings ==
    { Join(es) : es \in UNION { [1..n -> Entries] : n \in 0..MaxEntries } }

\* the trace settings a start-up is run with
StartupTraces == { <<FALSE, <<>>, FALSE, <<>>>>,
                   <<FALSE, <<>>, TRUE, Join(<<EL, EP>>)>>,
                   <<FALSE, <<>>, TRUE, Join(<<EL, EB>>)>>,
                   <<TRUE, EA, FALSE, <<>>>>,
                   <<TRUE, EP, TRUE, EL>> }

MkConfig(stop, has_file, has_env, has_workers, workers, has_trace, trace) ==
    ("stop_after_init" :> PyBool(stop))
    @@ Opt(has_workers, "workers", PyInt(workers))
    @@ Opt(has_file, "new_relic_config_file", PyStr(<<"newrelic.ini">>))
    @@ Opt(has_env, "new_relic_environment", PyStr(<<"production">>))
    @@ Opt(has_trace, "new_relic_odoo_trace", trace)

MkEnv(call_writable, has_server, bus_ok, agent_ok, wrap_ok, dispatchers, has_env_trace, env_trace) ==
    [call_writable |-> call_writable, has_server |-> has_server,
     bus_ok |-> bus_ok, agent_ok |-> agent_ok, wrap_ok |-> wrap_ok,
     dispatchers |-> dispatchers,
     environ |-> Opt(has_env_trace, "NEW_RELIC_ODOO_TRACE", PyStr(env_trace))]

AllDispatchers == {"HttpDispatcher", "JsonRPCDispatcher"}

InitRest ==
    /\ out = NoOut
    /\ nloads = 0
    /\ wsgi_rets = <<>>

\* a start-up in which the collaborators answer as the code expects them to
Init ==
    /\ \E stop \in BOOLEAN, has_file \in BOOLEAN, has_env \in BOOLEAN,
          workers \in {0, 2}, call_writable \in BOOLEAN, bus_ok \in BOOLEAN,
          server \in {"none", "plain", "instrumented"}, tr \in StartupTraces :
          /\ config = MkConfig(stop, has_file, has_env, TRUE, workers,
                               tr[3], PyStr(tr[4]))
          /\ env = MkEnv(call_writable, server # "none", bus_ok, TRUE, TRUE,
                         AllDispatchers, tr[1], tr[2])
          /\ proc = InitProc(server = "instrumented")
    /\ InitRest

\* a start-up in which any step may fail
InitFault ==
    /\ \E has_workers \in BOOLEAN, call_writable \in BOOLEAN,
          bus_ok \in BOOLEAN, agent_ok \in BOOLEAN, wrap_ok \in BOOLEAN,
          has_server \in BOOLEAN,
          dispatchers \in {AllDispatchers, {"HttpDispatcher"}, {}},
          trace \in {None, PyBool(FALSE), PyStr(EB), PyStr(EL)} :
          /\ config = MkConfig(FALSE, TRUE, TRUE, has_workers, 0,
                               trace.t # "none", trace)
          /\ env = MkEnv(call_writable, has_server, bus_ok, agent_ok, wrap_ok,
                         dispatchers, FALSE, <<>>)
          /\ proc = InitProc(FALSE)
    /\ InitRest

\* one call of patch_methods on a fresh process, for every trace setting
InitTrace ==
    /\ \E tr \in ({ <<FALSE, <<>>, FALSE, <<>>>> }
                  \cup { <<FALSE, <<>>, TRUE, s>> : s \in TraceStrings }
                  \cup { <<TRUE, s, FALSE, <<>>>> : s \in TraceStrings }
                  \cup { <<TRUE, s, TRUE, EA>> : s \in TraceStrings }) :
          /\ config = MkConfig(FALSE, FALSE, FALSE, TRUE, 0, tr[3], PyStr(tr[4]))
          /\ env = MkEnv(TRUE, FALSE, TRUE, TRUE, TRUE, AllDispatchers,
                         tr[1], tr[2])
          /\ proc = InitProc(FALSE)
    /\ InitRest

----------------------------------------------------------------------------
(* Actions *)

OutOf(op, c) ==
    [NoOut EXCEPT !.op = op, !.calls = c.calls, !.log = c.log, !.exc = c.exc,
                  !.wsgi = c.wsgi]

PostLoad ==
    /\ nloads < MaxLoads
    /\ LET c == post_load(NewCtx(proc))
       IN  /\ proc' = c.p
           /\ out' = OutOf("post_load", c)
           /\ wsgi_rets' = IF c.wsgi = "" THEN wsgi_rets
                           ELSE Append(wsgi_rets, c.wsgi)
    /\ nloads' = nloads + 1
    /\ UNCHANGED <<config, env>>

\* a request fails and the dispatcher's handle_error is called
HandleError ==
    /\ \E d \in env.dispatchers, txn \in BOOLEAN, value \in Exceptions,
          orig \in Outcomes :
          LET r == handle_error(proc.handle_error_wraps[d], txn, <<d, value>>, orig)
          IN  out' = [NoOut EXCEPT !.op = "handle_error", !.events = r.events,
                                   !.outcome = r.outcome,
                                   !.call = [disp |-> d, txn |-> txn,
                                             value |-> value, orig |-> orig]]
    /\ UNCHANGED <<config, env, proc, nloads, wsgi_rets>>

PatchMethods ==
    /\ out.op = "none"
    /\ LET c == patch_methods(NewCtx(proc))
       IN  /\ proc' = c.p
           /\ out' = OutOf("patch_methods", c)
    /\ UNCHANGED <<config, env, nloads, wsgi_rets>>

Next == PostLoad \/ HandleError

NextTrace == PatchMethods

Spec == Init /\ [][Next]_vars

SpecFault == InitFault /\ [][Next]_vars

SpecTrace == InitTrace /\ [][NextTrace]_vars

----------------------------------------------------------------------------
(* What the claims are stated with *)

EffectiveTrace ==
    IF "NEW_RELIC_ODOO_TRACE" \in DOMAIN env.environ
    THEN env.environ["NEW_RELIC_ODOO_TRACE"]
    ELSE IF "new_relic_odoo_trace" \in DOMAIN config
    THEN config["new_relic_odoo_trace"]
    ELSE PyStr(EL)

TraceUnset ==
    /\ "NEW_RELIC_ODOO_TRACE" \notin DOMAIN env.environ
    /\ "new_relic_odoo_trace" \notin DOMAIN config

\* the text without its leading and trailing blanks
Stripped(s) ==
    LET solid == {i \in DOMAIN s : s[i] # WS}
    IN  IF solid = {} THEN <<>>
        ELSE SubSeq(s, CHOOSE i \in solid : \A j \in solid : i <= j,
                       CHOOSE i \in solid : \A j \in solid : j <= i)

Commas(s) == {i \in DOMAIN s : s[i] = ","}

NEntries(s) == Cardinality(Commas(s)) + 1

KthComma(s, k) ==
    CHOOSE i \in Commas(s) : Cardinality({j \in Commas(s) : j <= i}) = k

\* the k-th comma-separated entry of the text
EntryAt(s, k) ==
    SubSeq(s, IF k = 1 THEN 1 ELSE KthComma(s, k - 1) + 1,
              IF k = NEntries(s) THEN Len(s) ELSE KthComma(s, k) - 1)

Colons(e) == {i \in DOMAIN e : e[i] = ":"}

\* an entry that is not one module:mode pair
Malformed(e) == Cardinality(Colons(e)) # 1

LimitedNames ==
    { <<"create">>, <<"read">>, <<"read_group">>, <<"write">>, <<"unlink">>,
      <<"search">>, <<"search_read">>, <<"search_count">> }

IsCallable(n) == \E i \in DOMAIN BaseModelDir :
                     BaseModelDir[i].name = n /\ BaseModelDir[i].callable

\* a well-formed entry asks for method n of BaseModel to be traced
Selects(e, n) ==
    LET ci   == CHOOSE i \in Colons(e) : TRUE
        base == SubSeq(e, 1, ci - 1)
        mode == SubSeq(e, ci + 1, Len(e))
    IN  /\ base = <<BaseModelName>>
        /\ \/ mode = <<"limited">> /\ n \in LimitedNames
           \/ mode = <<"public">> /\ IsCallable(n) /\ n[1] # "_"
           \/ mode = <<"all">> /\ IsCallable(n) /\ ~(n[1] = "_" /\ n[2] = "_")

\* the entries one run of patch_methods applies: those before the first
\* malformed one
AppliedEntries(s) ==
    {k \in 1..NEntries(s) :
        \A j \in 1..k : ~Malformed(EntryAt(s, j))}

TimesSelected(s, n) ==
    Cardinality({k \in AppliedEntries(s) : Selects(EntryAt(s, k), n)})

StartupTargetsUntouched(p) ==
    /\ p.agent_inits = <<>> /\ p.bus_wraps = 0
    /\ p.call_wraps = 0 /\ p.class_wraps = 0 /\ p.server_app_wraps = 0
    /\ ~p.app_marker
    /\ \A d \in AllDispatchers : p.handle_error_wraps[d] = 0

WsgiTargets(p) ==
    <<p.call_wraps, p.class_wraps, p.server_app_wraps, p.server_app_marker,
      p.app_marker>>

StopAfterInit == Truthy(config_get("stop_after_init"))

\* every call post_load makes into the agent and the framework succeeds
NoCollaboratorFails ==
    /\ env.agent_ok /\ env.bus_ok /\ env.wrap_ok
    /\ env.dispatchers = AllDispatchers
    /\ "workers" \in DOMAIN config
    /\ EffectiveTrace.t = "str"

NoticeAt(es) == {i \in DOMAIN es : es[i].ev = "notice_error"}

OriginalAt(es) == {i \in DOMAIN es : es[i].ev = "original"}

WrappedCall(txn) ==
    /\ out.op = "handle_error"
    /\ out.call.txn = txn
    /\ proc.handle_error_wraps[out.call.disp] >= 1

----------------------------------------------------------------------------
(* Claims *)

\* C1: in a sequence of patch_wsgi calls that starts with no marker on
\* http.Application, the first call returns True and every later call returns
\* False and leaves http.Application, its __call__ and server.app as they were,
\* in the in-place branch and in the fallback branch alike.
C1_PatchWsgiOnce ==
    [][ Len(wsgi_rets') = Len(wsgi_rets) + 1 =>
          /\ wsgi_rets'[Len(wsgi_rets')] =
                 (IF wsgi_rets = <<>> THEN "True" ELSE "False")
          /\ wsgi_rets = <<>> =>
                 /\ proc'.call_wraps + proc'.class_wraps = 1
                 /\ proc'.call_wraps = 1 <=> env.call_writable
                 /\ proc'.app_marker
          /\ wsgi_rets # <<>> => WsgiTargets(proc') = WsgiTargets(proc) ]_vars

C1_Witness ==
    /\ Len(wsgi_rets) >= 2
    /\ wsgi_rets[2] = "False"
    /\ proc.class_wraps = 1
    /\ proc.server_app_wraps = 1

\* C2: with stop_after_init truthy post_load calls none of the five
\* functions, and the agent, the marker and every patch target stay as they
\* were.
C2_StopAfterInitSkipsAll ==
    (StopAfterInit /\ out.op = "post_load") =>
        /\ out.calls = <<>>
        /\ out.exc = ""
        /\ proc = InitProc(proc.server_app_marker)

C2_Witness == StopAfterInit /\ out.op = "post_load" /\ nloads = MaxLoads

\* C3: with stop_after_init falsy post_load calls initialize_agent, then
\* patch_wsgi, and then patch_bus_controller, patch_methods and
\* setup_error_handling, in that order and once each, exactly when patch_wsgi
\* returned True.
C3_PostLoadOrder ==
    (~StopAfterInit /\ out.op = "post_load") =>
        /\ out.wsgi \in {"True", "False"}
        /\ out.wsgi = "True" =>
               out.calls = <<"initialize_agent", "patch_wsgi",
                             "patch_bus_controller", "patch_methods",
                             "setup_error_handling">>
        /\ out.wsgi = "False" =>
               out.calls = <<"initialize_agent", "patch_wsgi">>

C3_Witness ==
    /\ ~StopAfterInit /\ out.op = "post_load" /\ out.wsgi = "False"
    /\ out.calls = <<"initialize_agent", "patch_wsgi">>
    /\ proc.bus_wraps = 1

\* C4: no failure of a start-up step propagates out of post_load.
C4_NoFailurePropagates == out.op = "post_load" => out.exc = ""

\* C5: for every combination of the keys new_relic_config_file and
\* new_relic_environment, each initialize_agent completes one agent
\* initialization and raises nothing: with (file, environment) when both keys
\* are present, with (file) when only the file key is, with no argument when
\* the file key is absent.
C5_InitializeAgentFallbacks ==
    ~StopAfterInit =>
        /\ Len(proc.agent_inits) = nloads
        /\ out.op = "post_load" => out.exc = ""
        /\ \A i \in DOMAIN proc.agent_inits :
               proc.agent_inits[i] =
                   (IF "new_relic_config_file" \notin DOMAIN config THEN <<>>
                    ELSE IF "new_relic_environment" \notin DOMAIN config
                    THEN <<PyStr(<<"newrelic.ini">>)>>
                    ELSE <<PyStr(<<"newrelic.ini">>), PyStr(<<"production">>)>>)

C5_Witness ==
    /\ nloads >= 1 /\ ~StopAfterInit
    /\ "new_relic_config_file" \in DOMAIN config
    /\ "new_relic_environment" \notin DOMAIN config
    /\ proc.agent_inits[1] = <<PyStr(<<"newrelic.ini">>)>>

\* C6: with neither NEW_RELIC_ODOO_TRACE nor new_relic_odoo_trace set,
\* patch_methods wraps the eight methods create, read, read_group, write,
\* unlink, search, search_read, search_count once each, and nothing else.
C6_DefaultIsLimited ==
    (TraceUnset /\ out.op = "patch_methods") =>
        /\ out.exc = ""
        /\ \A n \in AttrNames :
               proc.method_wraps[n] = (IF n \in LimitedNames THEN 1 ELSE 0)
        /\ StartupTargetsUntouched(proc)

C6_Witness ==
    /\ TraceUnset /\ out.op = "patch_methods"
    /\ proc.method_wraps[<<"search_count">>] = 1

\* C7: for a trace spec with an entry that lacks the ':' separator,
\* patch_methods logs the error and returns without raising; the entries
\* before the first malformed entry are applied, no entry at or after it is.
C7_MalformedSpecSwallowed ==
    LET s == Stripped(EffectiveTrace.v)
    IN  (/\ out.op = "patch_methods"
         /\ \E k \in 1..NEntries(s) : Colons(EntryAt(s, k)) = {}) =>
            /\ out.exc = ""
            /\ out.log # <<>> /\ out.log[Len(out.log)][1] = "exception"
            /\ \A n \in AttrNames : proc.method_wraps[n] = TimesSelected(s, n)

C7_Witness ==
    /\ out.op = "patch_methods"
    /\ EffectiveTrace.v = Join(<<EP, EB>>)
    /\ proc.method_wraps[<<"browse">>] = 1
    /\ out.log[Len(out.log)] = <<"exception", "ValueError">>

\* C8: with no transaction active the handle_error wrapper calls the
\* original handler once with the same arguments, reports no error, opens no
\* function trace, and its outcome is the original handler's.
C8_PassThroughWithoutTransaction ==
    WrappedCall(FALSE) =>
        /\ Len(out.events) = 1
        /\ out.events[1].ev = "original"
        /\ out.events[1].arg = <<out.call.disp, out.call.value>>
        /\ out.outcome = out.call.orig

C8_Witness == WrappedCall(FALSE) /\ out.call.orig.kind = "raise"

\* C9: with a transaction active each call of the wrapper reports the error
\* once, before the original handler runs, with the exception's code for an
\* HTTP exception and None otherwise; the original handler is then called
\* once and its result is returned.
C9_ReportsStatusCode ==
    WrappedCall(TRUE) =>
        LET es == out.events
        IN  /\ Cardinality(NoticeAt(es)) =
                   proc.handle_error_wraps[out.call.disp]
            /\ Cardinality(OriginalAt(es)) = 1
            /\ \A i \in NoticeAt(es) :
                   /\ \A j \in OriginalAt(es) : i < j
                   /\ es[i].arg = (IF out.call.value.http
                                   THEN PyInt(out.call.value.code) ELSE None)
            /\ \A j \in OriginalAt(es) :
                   es[j].arg = <<out.call.disp, out.call.value>>
            /\ out.outcome = out.call.orig

C9_Witness ==
    /\ WrappedCall(TRUE)
    /\ out.call.value.code = 404
    /\ out.events[1] = Event("notice_error", PyInt(404))

\* C10 as stated: after any number of post_load invocations with
\* stop_after_init falsy in which no collaborator call fails, each
\* dispatcher's handle_error and each traced BaseModel method is wrapped at
\* most once.
C10_WrappedAtMostOnce ==
    (~StopAfterInit /\ NoCollaboratorFails) =>
        /\ \A d \in AllDispatchers : proc.handle_error_wraps[d] <= 1
        /\ \A n \in AttrNames : proc.method_wraps[n] <= 1

\* C10 as amended: after any number of post_load invocations with
\* stop_after_init falsy in which no collaborator call fails, each
\* dispatcher's handle_error is wrapped at most once and patch_methods has
\* run at most once, so a BaseModel method is wrapped once for each entry of
\* the trace spec that selects it; initialize_agent runs on every invocation.
C10_PatchedByOneRun ==
    (~StopAfterInit /\ NoCollaboratorFails) =>
        /\ \A d \in AllDispatchers :
               proc.handle_error_wraps[d] = (IF nloads >= 1 THEN 1 ELSE 0)
        /\ \A n \in AttrNames :
               proc.method_wraps[n] =
                   (IF nloads >= 1
                    THEN TimesSelected(Stripped(EffectiveTrace.v), n) ELSE 0)
        /\ Len(proc.agent_inits) = nloads

C10_Witness ==
    /\ nloads = MaxLoads /\ NoCollaboratorFails
    /\ proc.handle_error_wraps["JsonRPCDispatcher"] = 1
    /\ proc.method_wraps[<<"create">>] = 2
    /\ Len(proc.agent_inits) = MaxLoads

====
